---- MODULE Spec2Model ----
(***************************************************************************)
(* Simon Says on the STM32F411: the game state machine of                  *)
(* Core/Src/main.cpp (main's while(1)/switch, GetPressedButtonIndex,       *)
(* ToggleLEDsForGameOver, RunningLightForWin).                             *)
(*                                                                         *)
(* One step of the model is one statement group of the source between two  *)
(* observable points (a GPIO read, a GPIO write followed by its HAL_Delay, *)
(* or the dispatch of the switch).  pc names the program position.         *)
(* GPIO inputs are active-low in the source; the model speaks of "active". *)
(***************************************************************************)
EXTENDS Integers, Sequences, FiniteSets, TLC

\* ---- program constants -------------------------------------------------
MAX_LEVEL == 5
BUTTON_COUNT == 4
LED_COUNT == 4
DISTRIB_MAX == 3
BLINK_COUNT == 4
WIN_ROUNDS == 4

\* ---- bounds of the model -----------------------------------------------
\* HAL_GetTick() values the Start press can be sampled at: 0..MaxTick
MaxTick == 1

Buttons == 0 .. (BUTTON_COUNT - 1)
Leds == 0 .. (LED_COUNT - 1)
Levels == 0 .. (MAX_LEVEL - 1)
Signals == 0 .. DISTRIB_MAX
Ticks == 0 .. MaxTick

\* enum GameState
IDLE == "IDLE"
SIMON_SAYS == "SIMON_SAYS"
PLAYER_SAYS == "PLAYER_SAYS"
GAME_OVER == "GAME_OVER"
WIN == "WIN"
GameState == {IDLE, SIMON_SAYS, PLAYER_SAYS, GAME_OVER, WIN}

\* std::mt19937::default_seed, the seed of the default-constructed generator
\* (never drawn from: the first draw of every run follows generator.seed)
DefaultSeed == 5489

VARIABLES
    state,          \* GameState state (main)
    pc,             \* program position inside the while(1) body
    current_level,  \* uint8_t current_level
    sequence,       \* uint32_t sequence[MAX_LEVEL]
    generator,      \* std::mt19937 generator: the seed and the draws since
    leds,           \* GPIOA outputs that are SET
    i,              \* loop index i of the running for loop (0 outside)
    j,              \* outer index of the feedback animations (0 outside)
    index,          \* int8_t index of PLAYER_SAYS (-1 outside a press)
    sampled,        \* GPIOB inputs found active by the scan in progress
    held,           \* last value of the release loop's condition
    start,          \* START pin is active (pressed)
    drawn,          \* history: the values distrib(generator) returned since
                    \* the last generator.seed
    pulses,         \* history: the outputs pulsed by the running or the last
                    \* demonstration, in order
    entered,        \* history: the presses the running PLAYER_SAYS case has
                    \* compared so far, in order
    matches,        \* history: the presses found equal to their sequence
                    \* entry since the last generator.seed
    written,        \* history: the positions of sequence stored to since the
                    \* last generator.seed
    presses,        \* history: the presses compared since the last
                    \* generator.seed
    mt              \* what distrib(generator) returns, as a function of the
                    \* seed and of the number of draws since (Free: anything)

vars == <<state, pc, current_level, sequence, generator, leds, i, j, index,
          sampled, held, start, drawn, pulses, entered, matches, written,
          presses, mt>>

\* ---- helpers -----------------------------------------------------------

\* GetPressedButtonIndex: the for loop from position k on, over the input
\* levels pins (the set of buttons whose pin reads 0)
RECURSIVE ScanFrom(_, _)
ScanFrom(k, pins) ==
    IF k >= BUTTON_COUNT THEN -1
    ELSE IF k \in pins THEN k
    ELSE ScanFrom(k + 1, pins)

\* mutant of GetPressedButtonIndex: the scan runs from the last button down
RECURSIVE ScanDownFrom(_, _)
ScanDownFrom(k, pins) ==
    IF k < 0 THEN -1
    ELSE IF k \in pins THEN k
    ELSE ScanDownFrom(k - 1, pins)

GetHighestPressed(pins) == ScanDownFrom(BUTTON_COUNT - 1, pins)

GetPressedButtonIndex(pins) == ScanFrom(0, pins)

\* Spec leaves the outputs of the generator open: every draw is any value
\* of distrib's range
Free == <<>>

\* DetSpec fixes them: std::mt19937 and the stateless distrib(0, 3) return a
\* value that is a function of the seed and of the number of draws made
\* since the seed.  Rows are the output streams tried (the first is the one
\* of the specification's scenarios).
Rows == { <<2, 0, 3, 1, 2>>, <<0, 0, 0, 0, 0>>, <<1, 2, 2, 3, 0>> }
Tables == [Ticks -> Rows]

\* the values distrib(generator) can return in generator state g
Draws(g) ==
    IF DOMAIN mt = {} THEN Signals ELSE {mt[g.seed][g.calls + 1]}

\* generator.seed(value)
Seed(value) == [seed |-> value, calls |-> 0]

\* the state of the generator after one distrib(generator)
Advance(g) == [g EXCEPT !.calls = g.calls + 1]

\* mutant of ReadsStart: the START pin is tested ahead of the switch
ReadsStartAlways(st) == TRUE

\* the START pin is read by case IDLE of the switch, and by no other case
ReadsStart(st) == st = IDLE

\* mutant of StartPressed: the polarity of the START pin is inverted
StartPressedInverted(level) == ~level

\* the condition of IDLE's if: HAL_GPIO_ReadPin(START) == 0
StartPressed(level) == level

\* mutant of WriteSequence: the store always goes to sequence[0]
WriteSequenceFirst(seq, level, v) == [seq EXCEPT ![0] = v]

\* mutant of WriteSequence: the store fills the whole buffer
WriteSequenceAll(seq, level, v) == [k \in DOMAIN seq |-> v]

\* sequence[current_level] = <the value drawn>
WriteSequence(seq, level, v) == [seq EXCEPT ![level] = v]

\* mutant of Shown: only the newest entry is shown
ShownNewest(k) == sequence[current_level]

\* the output of the demonstration's k-th pulse: led_pins[sequence[i]]
Shown(k) == sequence[k]

\* the positions of the buffer the store sequence[current_level] = ...
\* writes to
StoredPositions(seq, level) ==
    {k \in DOMAIN seq : WriteSequence(seq, level, -1)[k] = -1}

\* mutant of DemoContinues: the loop stops one pulse early
DemoContinuesStrict(k, level) == k < level

\* the condition of the demonstration's for loop: i <= current_level
DemoContinues(k, level) == k <= level

\* mutant of AfterFeedback: the state is not assigned after the feedback
AfterFeedbackNone == state

\* mutant of AfterFeedback: the feedback restarts the demonstration
AfterFeedbackReplay == SIMON_SAYS

\* `state = IDLE` at the end of case GAME_OVER and of case WIN
AfterFeedback == IDLE

\* mutant of StillPressed: the loop never sees the release
StillPressedAlways(level) == TRUE

\* mutant of StillPressed: the polarity of the pin is inverted
StillPressedInverted(level) == ~level

\* the condition of the release loop: HAL_GPIO_ReadPin(button) == 0
StillPressed(level) == level

\* mutants of Matches: compares with the first entry; accepts every press
MatchesFirst(idx, pos) == idx = sequence[0]
MatchesAny(idx, pos) == TRUE

\* static_cast<uint32_t>(index) == sequence[i]
Matches(idx, pos) == idx = sequence[pos]

\* mutants of LastLevel: the comparison off by one, either way
LastLevelEarly(level) == level = MAX_LEVEL - 2
LastLevelLate(level) == level = MAX_LEVEL

\* current_level == MAX_LEVEL - 1
LastLevel(level) == level = MAX_LEVEL - 1

\* mutant of StartLevel: the level of the last session is kept
StartLevelKept == current_level

\* `current_level = 0` of case IDLE
StartLevel == 0

\* mutant of Increment: the level advances by two
IncrementTwo(level) == (level + 2) % 256

\* ++current_level on a uint8_t
Increment(level) == (level + 1) % 256

\* mutant of WriteReset: the output is left on
WriteResetNone(out, k) == out

\* HAL_GPIO_WritePin(GPIOA, led_pins[k], GPIO_PIN_SET / GPIO_PIN_RESET)
WriteSet(out, k) == out \cup {k}
WriteReset(out, k) == out \ {k}

\* mutant of TogglePin: the pins are set, not toggled
TogglePinSet(out, mask) == out \cup mask

\* HAL_GPIO_TogglePin(GPIOA, mask)
TogglePin(out, mask) == (out \ mask) \cup (mask \ out)

TypeOK ==
    /\ state \in GameState
    /\ pc \in {"loop", "demo", "demo_off", "poll", "scanned", "release",
               "compare", "after", "toggle", "win_on", "win_off"}
    /\ current_level \in 0 .. 255
    /\ sequence \in [Levels -> Signals]
    /\ generator \in [seed : Ticks \cup {DefaultSeed}, calls : 0 .. MAX_LEVEL]
    /\ leds \subseteq Leds
    /\ i \in 0 .. MAX_LEVEL
    /\ j \in 0 .. WIN_ROUNDS
    /\ index \in -1 .. (BUTTON_COUNT - 1)
    /\ sampled \subseteq Buttons
    /\ held \in BOOLEAN
    /\ start \in BOOLEAN
    /\ drawn \in Seq(Signals)
    /\ pulses \in Seq(Leds)
    /\ entered \in Seq(Buttons)
    /\ matches \in Nat
    /\ written \subseteq Levels
    /\ presses \in Nat
    /\ (DOMAIN mt = {} \/ mt \in Tables)

\* ---- initial state: after HAL_Init, MX_GPIO_Init and `state = IDLE` ----
Init ==
    /\ state = IDLE
    /\ pc = "loop"
    /\ current_level = 0
    /\ sequence = [k \in Levels |-> 0]
    /\ generator = [seed |-> DefaultSeed, calls |-> 0]
    /\ leds = {}
    /\ i = 0
    /\ j = 0
    /\ index = -1
    /\ sampled = {}
    /\ held = FALSE
    /\ start \in BOOLEAN
    /\ drawn = <<>>
    /\ pulses = <<>>
    /\ entered = <<>>
    /\ matches = 0
    /\ written = {}
    /\ presses = 0
    /\ mt = Free

\* ---- the player's hand on the Start button ------------------------------
StartChange ==
    /\ start' = ~start
    /\ UNCHANGED <<state, pc, current_level, sequence, generator, leds, i, j,
                   index, sampled, held, drawn, pulses, entered, matches,
                   written, presses, mt>>

\* ---- case IDLE ----------------------------------------------------------
\* if (ReadPin(START) == 0) { generator.seed(HAL_GetTick()); ... }
Idle ==
    /\ pc = "loop"
    /\ ReadsStart(state)
    /\ IF StartPressed(start)
       THEN \E tick \in Ticks :
               /\ generator' = Seed(tick)
               /\ drawn' = <<>>
               /\ matches' = 0
               /\ written' = {}
               /\ presses' = 0
               /\ current_level' = StartLevel
               /\ state' = SIMON_SAYS
       ELSE UNCHANGED <<generator, drawn, matches, written, presses,
                        current_level, state>>
    /\ UNCHANGED <<pc, sequence, leds, i, j, index, sampled, held, start,
                   pulses, entered, mt>>

\* ---- case SIMON_SAYS ----------------------------------------------------
\* sequence[current_level] = distrib(generator); for (int i = 0; ...
SimonGenerate ==
    /\ pc = "loop"
    /\ state = SIMON_SAYS
    /\ \E v \in Draws(generator) :
          /\ sequence' = WriteSequence(sequence, current_level, v)
          /\ drawn' = Append(drawn, v)
    /\ generator' = Advance(generator)
    /\ written' = written \cup StoredPositions(sequence, current_level)
    /\ pulses' = <<>>
    /\ i' = 0
    /\ pc' = "demo"
    /\ UNCHANGED <<state, current_level, leds, j, index, sampled, held, start,
                   entered, matches, presses, mt>>

\* i <= current_level: WritePin(led_pins[sequence[i]], SET); HAL_Delay
DemoOn ==
    /\ pc = "demo"
    /\ DemoContinues(i, current_level)
    /\ leds' = WriteSet(leds, Shown(i))
    /\ pulses' = Append(pulses, Shown(i))
    /\ pc' = "demo_off"
    /\ UNCHANGED <<state, current_level, sequence, generator, i, j, index,
                   sampled, held, start, drawn, entered, matches,
                   written, presses, mt>>

\* WritePin(led_pins[sequence[i]], RESET); HAL_Delay; state = PLAYER_SAYS; ++i
DemoOff ==
    /\ pc = "demo_off"
    /\ leds' = WriteReset(leds, Shown(i))
    /\ state' = PLAYER_SAYS
    /\ i' = i + 1
    /\ pc' = "demo"
    /\ UNCHANGED <<current_level, sequence, generator, j, index, sampled,
                   held, start, drawn, pulses, entered, matches,
                   written, presses, mt>>

\* !(i <= current_level): the for loop ends; break
DemoDone ==
    /\ pc = "demo"
    /\ ~DemoContinues(i, current_level)
    /\ i' = 0
    /\ pc' = "loop"
    /\ UNCHANGED <<state, current_level, sequence, generator, leds, j, index,
                   sampled, held, start, drawn, pulses, entered, matches,
                   written, presses, mt>>

\* ---- case PLAYER_SAYS ---------------------------------------------------
\* for (int i = 0; i <= current_level; ...) { bool flag = false;
PlayerBegin ==
    /\ pc = "loop"
    /\ state = PLAYER_SAYS
    /\ i' = 0
    /\ pc' = IF 0 <= current_level THEN "poll" ELSE "after"
    /\ UNCHANGED <<state, current_level, sequence, generator, leds, j, index,
                   sampled, held, start, drawn, pulses, entered, matches,
                   written, presses, mt>>

\* int8_t index = GetPressedButtonIndex();
Poll ==
    /\ pc = "poll"
    /\ \E pins \in SUBSET Buttons :
          /\ sampled' = pins
          /\ index' = GetPressedButtonIndex(pins)
    /\ pc' = "scanned"
    /\ UNCHANGED <<state, current_level, sequence, generator, leds, i, j,
                   held, start, drawn, pulses, entered, matches,
                   written, presses, mt>>

\* if (index >= 0) { WritePin(led_pins[index], SET); HAL_Delay
\* else the while (!flag) loop polls again
Press ==
    /\ pc = "scanned"
    /\ IF index >= 0
       THEN /\ leds' = WriteSet(leds, index)
            /\ pc' = "release"
       ELSE /\ leds' = leds
            /\ pc' = "poll"
    /\ sampled' = {}
    /\ UNCHANGED <<state, current_level, sequence, generator, i, j, index,
                   held, start, drawn, pulses, entered, matches,
                   written, presses, mt>>

\* while (HAL_GPIO_ReadPin(GPIOB, button_pins[index]) == 0) {}
\* and, once the pin reads 1: WritePin(led_pins[index], RESET); HAL_Delay
ReleaseWait ==
    /\ pc = "release"
    /\ \E level \in BOOLEAN :
          /\ held' = level
          /\ IF StillPressed(level)
             THEN UNCHANGED <<pc, leds>>
             ELSE /\ leds' = WriteReset(leds, index)
                  /\ pc' = "compare"
    /\ UNCHANGED <<state, current_level, sequence, generator, i, j, index,
                   sampled, start, drawn, pulses, entered, matches,
                   written, presses, mt>>

\* if (index == sequence[i]) flag = true; else { state = GAME_OVER; break; }
\* then `if (state != PLAYER_SAYS) break;` and the for loop's ++i and test
Compare ==
    /\ pc = "compare"
    /\ entered' = Append(entered, index)
    /\ presses' = presses + 1
    /\ IF Matches(index, i)
       THEN /\ state' = state
            /\ matches' = matches + 1
            /\ IF i + 1 <= current_level
               THEN i' = i + 1 /\ pc' = "poll"
               ELSE i' = 0 /\ pc' = "after"
       ELSE /\ state' = GAME_OVER
            /\ matches' = matches
            /\ i' = 0
            /\ pc' = "after"
    /\ index' = -1
    /\ held' = FALSE
    /\ UNCHANGED <<current_level, sequence, generator, leds, j, sampled,
                   start, drawn, pulses, written, mt>>

\* if (state == PLAYER_SAYS) { WIN, or ++current_level and SIMON_SAYS }
RoundEnd ==
    /\ pc = "after"
    /\ IF state = PLAYER_SAYS
       THEN IF LastLevel(current_level)
            THEN state' = WIN /\ current_level' = current_level
            ELSE state' = SIMON_SAYS /\ current_level' = Increment(current_level)
       ELSE UNCHANGED <<state, current_level>>
    /\ entered' = <<>>
    /\ pc' = "loop"
    /\ UNCHANGED <<sequence, generator, leds, i, j, index, sampled, held,
                   start, drawn, pulses, matches,
                   written, presses, mt>>

\* ---- case GAME_OVER: ToggleLEDsForGameOver(); state = IDLE --------------
GameOverBegin ==
    /\ pc = "loop"
    /\ state = GAME_OVER
    /\ i' = 0
    /\ pc' = "toggle"
    /\ UNCHANGED <<state, current_level, sequence, generator, leds, j, index,
                   sampled, held, start, drawn, pulses, entered, matches,
                   written, presses, mt>>

\* for (int i = 0; i < 4; ++i) { TogglePin(all four); HAL_Delay }
ToggleLEDsForGameOver ==
    /\ pc = "toggle"
    /\ IF i < BLINK_COUNT
       THEN /\ leds' = TogglePin(leds, Leds)
            /\ i' = i + 1
            /\ UNCHANGED <<pc, state>>
       ELSE /\ i' = 0
            /\ state' = AfterFeedback
            /\ pc' = "loop"
            /\ leds' = leds
    /\ UNCHANGED <<current_level, sequence, generator, j, index, sampled,
                   held, start, drawn, pulses, entered, matches,
                   written, presses, mt>>

\* ---- case WIN: RunningLightForWin(); state = IDLE -----------------------
WinBegin ==
    /\ pc = "loop"
    /\ state = WIN
    /\ i' = 0
    /\ j' = 0
    /\ pc' = "win_on"
    /\ UNCHANGED <<state, current_level, sequence, generator, leds, index,
                   sampled, held, start, drawn, pulses, entered, matches,
                   written, presses, mt>>

\* the loop tests of j and i, then WritePin(led_pins[i], SET); HAL_Delay
WinOn ==
    /\ pc = "win_on"
    /\ IF j < WIN_ROUNDS
       THEN IF i < LED_COUNT
            THEN /\ leds' = WriteSet(leds, i)
                 /\ pc' = "win_off"
                 /\ UNCHANGED <<i, j, state>>
            ELSE /\ i' = 0
                 /\ j' = j + 1
                 /\ UNCHANGED <<leds, pc, state>>
       ELSE /\ i' = 0
            /\ j' = 0
            /\ state' = AfterFeedback
            /\ pc' = "loop"
            /\ leds' = leds
    /\ UNCHANGED <<current_level, sequence, generator, index, sampled, held,
                   start, drawn, pulses, entered, matches,
                   written, presses, mt>>

\* WritePin(led_pins[i], RESET); ++i
WinOff ==
    /\ pc = "win_off"
    /\ leds' = WriteReset(leds, i)
    /\ i' = i + 1
    /\ pc' = "win_on"
    /\ UNCHANGED <<state, current_level, sequence, generator, j, index,
                   sampled, held, start, drawn, pulses, entered, matches,
                   written, presses, mt>>

Next ==
    \/ StartChange
    \/ Idle
    \/ SimonGenerate
    \/ DemoOn
    \/ DemoOff
    \/ DemoDone
    \/ PlayerBegin
    \/ Poll
    \/ Press
    \/ ReleaseWait
    \/ Compare
    \/ RoundEnd
    \/ GameOverBegin
    \/ ToggleLEDsForGameOver
    \/ WinBegin
    \/ WinOn
    \/ WinOff

Spec == Init /\ [][Next]_vars

\* the steps of the program (every step but the player's hand on START)
Program ==
    \/ Idle
    \/ SimonGenerate
    \/ DemoOn
    \/ DemoOff
    \/ DemoDone
    \/ PlayerBegin
    \/ Poll
    \/ Press
    \/ ReleaseWait
    \/ Compare
    \/ RoundEnd
    \/ GameOverBegin
    \/ ToggleLEDsForGameOver
    \/ WinBegin
    \/ WinOn
    \/ WinOff

\* the steps whose progress does not wait for the player: every step but
\* the release loop (a START poll is one: it leaves IDLE whenever it finds
\* the pin active)
Compute ==
    \/ Idle
    \/ SimonGenerate
    \/ DemoOn
    \/ DemoOff
    \/ DemoDone
    \/ PlayerBegin
    \/ Poll
    \/ Press
    \/ Compare
    \/ RoundEnd
    \/ GameOverBegin
    \/ ToggleLEDsForGameOver
    \/ WinBegin
    \/ WinOn
    \/ WinOff

\* a scan that finds a button active
PressDetected == Poll /\ index' >= 0

\* a read of the release loop that finds the button inactive
Released == ReleaseWait /\ pc' = "compare"

\* the same program with the generator's outputs fixed by one of Tables
DetInit ==
    /\ state = IDLE
    /\ pc = "loop"
    /\ current_level = 0
    /\ sequence = [k \in Levels |-> 0]
    /\ generator = [seed |-> DefaultSeed, calls |-> 0]
    /\ leds = {}
    /\ i = 0
    /\ j = 0
    /\ index = -1
    /\ sampled = {}
    /\ held = FALSE
    /\ start \in BOOLEAN
    /\ drawn = <<>>
    /\ pulses = <<>>
    /\ entered = <<>>
    /\ matches = 0
    /\ written = {}
    /\ presses = 0
    /\ mt \in Tables

DetSpec == DetInit /\ [][Next]_vars

\* the single thread of main never stops executing: while (1) with no
\* interrupt, sleep or exit, and every HAL_Delay returns
FairDetSpec == DetSpec /\ WF_vars(Compute)

\* FairDetSpec with a player who keeps pressing some button when polled
\* and releases every button pressed
PlayerSpec == FairDetSpec /\ SF_vars(PressDetected) /\ WF_vars(Released)

\* ---- properties ---------------------------------------------------------

\* sequence[0 .. n-1] as a sequence
Prefix(n) == [k \in 1 .. n |-> sequence[k - 1]]

\* 1 + 2 + ... + MAX_LEVEL
AllPresses == (MAX_LEVEL * (MAX_LEVEL + 1)) \div 2

\* C1: the machine starts in IDLE, the state is always one of the five
\* states of GameState, and a step changes the state only along
\* IDLE->SIMON_SAYS, SIMON_SAYS->PLAYER_SAYS, PLAYER_SAYS->SIMON_SAYS,
\* PLAYER_SAYS->WIN, PLAYER_SAYS->GAME_OVER, GAME_OVER->IDLE, WIN->IDLE.
C1_Allowed ==
    { <<IDLE, SIMON_SAYS>>, <<SIMON_SAYS, PLAYER_SAYS>>,
      <<PLAYER_SAYS, SIMON_SAYS>>, <<PLAYER_SAYS, WIN>>,
      <<PLAYER_SAYS, GAME_OVER>>, <<GAME_OVER, IDLE>>, <<WIN, IDLE>> }

C1_StateMachine ==
    /\ state = IDLE
    /\ [](state \in GameState)
    /\ [][state' # state => <<state, state'>> \in C1_Allowed]_vars

\* back in IDLE after a session that went through all MAX_LEVEL
\* demonstrations and was lost in the last round
C1_Witness ==
    /\ state = IDLE
    /\ generator.calls = MAX_LEVEL
    /\ matches < AllPresses

\* C2: WIN is entered only from PLAYER_SAYS at current_level = MAX_LEVEL-1,
\* after the presses of that round reproduced sequence[0..current_level]
\* and all 1+2+...+MAX_LEVEL presses of the session's MAX_LEVEL rounds
\* matched; and once all of them have matched, the end of the round enters
\* WIN (the machine is nowhere else than at that point, in WIN, or back in
\* IDLE).
C2_WonOnlyAfterAllRounds ==
    /\ [][(state' = WIN /\ state # WIN) =>
            /\ state = PLAYER_SAYS
            /\ pc = "after"
            /\ current_level = MAX_LEVEL - 1
            /\ entered = Prefix(current_level + 1)
            /\ matches = AllPresses
            /\ Len(drawn) = MAX_LEVEL]_vars
    /\ [][(pc = "after" /\ pc' # pc /\ state = PLAYER_SAYS
             /\ matches = AllPresses) => state' = WIN]_vars
    /\ [](matches = AllPresses =>
            \/ state = PLAYER_SAYS /\ pc = "after"
            \/ state \in {WIN, IDLE})

C2_Witness ==
    /\ state = WIN
    /\ matches = AllPresses
    /\ Len(drawn) = MAX_LEVEL

\* C3: the comparison of a press that differs from sequence[i] sets the
\* state to GAME_OVER and leaves the for loop at once with current_level
\* unchanged; all presses compared before it in the round matched; in
\* GAME_OVER the machine is never at a button read; and GAME_OVER is
\* entered by no other step than such a comparison.
C3_MismatchLoses ==
    /\ [][(pc = "compare" /\ pc' # pc /\ index # sequence[i]) =>
            /\ state' = GAME_OVER
            /\ pc' = "after"
            /\ current_level' = current_level
            /\ entered = Prefix(i)]_vars
    /\ [][(state' = GAME_OVER /\ state # GAME_OVER) =>
            /\ state = PLAYER_SAYS
            /\ pc = "compare"
            /\ index # sequence[i]]_vars
    /\ [][state' = GAME_OVER => current_level' = current_level]_vars
    /\ [](state = GAME_OVER =>
            /\ pc \in {"after", "loop", "toggle"}
            /\ index = -1
            /\ sampled = {})

\* lost at the second press of the fourth round: two positions are skipped
C3_Witness ==
    /\ state = GAME_OVER
    /\ pc = "after"
    /\ current_level = 3
    /\ Len(entered) = 2
    /\ entered[1] = sequence[0]
    /\ entered[2] # sequence[1]

\* C4: a step from PLAYER_SAYS to SIMON_SAYS is taken only with
\* current_level < MAX_LEVEL-1 and after the current_level+1 presses of the
\* round equalled sequence[0], ..., sequence[current_level] in that order,
\* and it increases current_level by exactly 1.
C4_Progression ==
    [][(state = PLAYER_SAYS /\ state' = SIMON_SAYS) =>
          /\ current_level < MAX_LEVEL - 1
          /\ Len(entered) = current_level + 1
          /\ entered = Prefix(current_level + 1)
          /\ current_level' = current_level + 1]_vars

\* the fourth demonstration is about to start: three rounds were matched
C4_Witness ==
    /\ state = SIMON_SAYS
    /\ pc = "loop"
    /\ current_level = 3
    /\ matches = 1 + 2 + 3

\* C5: 0 <= current_level <= MAX_LEVEL-1 always, the store
\* sequence[current_level] is inside the buffer, and wherever sequence[i]
\* is read (the demonstration, the comparison) 0 <= i <= current_level.
C5_LevelInRange ==
    /\ current_level \in 0 .. (MAX_LEVEL - 1)
    /\ DOMAIN sequence = 0 .. (MAX_LEVEL - 1)
    /\ current_level \in DOMAIN sequence
    /\ pc \in {"demo_off", "poll", "scanned", "release", "compare"} =>
          /\ i \in 0 .. current_level
          /\ i \in DOMAIN sequence

\* the last position of the last round is being compared
C5_Witness ==
    /\ current_level = MAX_LEVEL - 1
    /\ pc = "compare"
    /\ i = MAX_LEVEL - 1

\* C6 as stated: whenever the state is SIMON_SAYS or PLAYER_SAYS,
\* sequence[0..current_level] are current_level+1 values drawn in the
\* current session, each in 0..3.
C6_AsStated ==
    state \in {SIMON_SAYS, PLAYER_SAYS} =>
       /\ Len(drawn) = current_level + 1
       /\ Prefix(current_level + 1) = drawn
       /\ \A k \in 0 .. current_level : sequence[k] \in 0 .. DISTRIB_MAX

\* C6: whenever the state is PLAYER_SAYS, or SIMON_SAYS once the store
\* sequence[current_level] = distrib(generator) of that case has run,
\* sequence[0..current_level] are exactly the current_level+1 values drawn
\* in the current session, each in 0..3; between the assignment of
\* SIMON_SAYS and that store only sequence[0..current_level-1] are.
C6_SequenceGenerated ==
    /\ (state = PLAYER_SAYS \/ (state = SIMON_SAYS /\ pc # "loop")) =>
          /\ Len(drawn) = current_level + 1
          /\ Prefix(current_level + 1) = drawn
          /\ \A k \in 0 .. current_level : sequence[k] \in 0 .. DISTRIB_MAX
    /\ (state = SIMON_SAYS /\ pc = "loop") =>
          /\ Len(drawn) = current_level
          /\ Prefix(current_level) = drawn
    /\ \A k \in 0 .. (MAX_LEVEL - 1) : sequence[k] \in 0 .. DISTRIB_MAX

\* second round of a later session: sequence[0..1] are this session's draws
\* while sequence[4] still holds a value of an earlier session
C6_Witness ==
    /\ state = PLAYER_SAYS
    /\ pc = "poll"
    /\ current_level = 1
    /\ drawn = <<2, 3>>
    /\ sequence[4] = 1

\* C7: the demonstration pulses sequence[0], ..., sequence[current_level]
\* in that order, one output at a time (each output is reset before the
\* next is set), and wherever a button is read afterwards all
\* current_level+1 pulses have been emitted.
C7_Playback ==
    /\ pc = "demo" =>
          /\ i <= current_level + 1
          /\ pulses = Prefix(i)
          /\ leds = {}
    /\ pc = "demo_off" =>
          /\ pulses = Prefix(i + 1)
          /\ leds = {sequence[i]}
    /\ (pc \in {"poll", "scanned", "release", "compare", "after"}
          \/ (pc = "loop" /\ state = PLAYER_SAYS)) =>
          /\ Len(pulses) = current_level + 1
          /\ pulses = Prefix(current_level + 1)

\* the third round's demonstration of three different outputs is over and
\* the first press is awaited
C7_Witness ==
    /\ pc = "poll"
    /\ current_level = 2
    /\ pulses = <<2, 0, 3>>
    /\ leds = {}

\* C8: in the release loop the output of the pressed button is on; a read
\* that finds the button active leaves position, state, level and outputs
\* as they are; the loop is left only by a read that finds the button
\* inactive, which resets the output; a press is compared only after that
\* read, and its comparison consumes it (a new scan is needed for the next
\* position).
C8_WaitForRelease ==
    /\ [](pc = "release" => index \in 0 .. (BUTTON_COUNT - 1) /\ index \in leds)
    /\ [][pc = "release" =>
            /\ i' = i
            /\ state' = state
            /\ current_level' = current_level
            /\ index' = index
            /\ entered' = entered
            /\ matches' = matches]_vars
    /\ [][(pc = "release" /\ held') => (pc' = "release" /\ leds' = leds)]_vars
    /\ [][(pc = "release" /\ pc' # "release") =>
            /\ ~held'
            /\ pc' = "compare"
            /\ leds' = leds \ {index}]_vars
    /\ [](pc = "compare" => ~held /\ index \notin leds)
    /\ [][(entered' # entered /\ entered' # <<>>) =>
            /\ pc = "compare"
            /\ ~held
            /\ entered' = Append(entered, index)
            /\ index' = -1]_vars

\* the button was read and found still held; its output is on
C8_Witness ==
    /\ pc = "release"
    /\ held
    /\ index = 2
    /\ leds = {2}
    /\ i = 1

\* the lowest element of a non-empty set of button indices
Lowest(S) == CHOOSE m \in S : \A n \in S : m <= n

\* C9: at every poll, for every combination of the four inputs the scan
\* can meet, GetPressedButtonIndex returns the lowest active index, and -1
\* exactly when none is active;
\* the index a scan returned is the lowest input it found active, that
\* output alone is lit, and that index is the one waited on and compared.
C9_LowestActive ==
    /\ [](pc = "poll" =>
            \A pins \in SUBSET (0 .. (BUTTON_COUNT - 1)) :
               /\ GetPressedButtonIndex(pins) =
                     IF pins = {} THEN -1 ELSE Lowest(pins)
               /\ (GetPressedButtonIndex(pins) = -1) <=> (pins = {}))
    /\ [](pc = "scanned" =>
            index = IF sampled = {} THEN -1 ELSE Lowest(sampled))
    /\ [][(pc = "scanned" /\ pc' # pc /\ sampled # {}) =>
            /\ pc' = "release"
            /\ index' = Lowest(sampled)
            /\ leds' = {Lowest(sampled)}]_vars
    /\ [](pc = "release" => leds = {index})
    /\ [][(pc = "compare" /\ pc' # pc) =>
            /\ entered' = Append(entered, index)
            /\ (state' = GAME_OVER) <=> (index # sequence[i])]_vars

\* buttons 1 and 3 were active at the scan, which returned 1
C9_Witness ==
    /\ pc = "scanned"
    /\ sampled = {1, 3}
    /\ index = 1

\* C10: outside IDLE no step reseeds the generator, discards the session's
\* draws or matches, or resets current_level, whatever the START pin does;
\* and a change of the START pin outside IDLE changes nothing else.
C10_StartIgnoredOutsideIdle ==
    /\ [][state # IDLE =>
            /\ generator'.seed = generator.seed
            /\ generator'.calls >= generator.calls
            /\ Len(drawn') >= Len(drawn)
            /\ matches' >= matches
            /\ current_level' >= current_level]_vars
    /\ [][(state # IDLE /\ start' # start) =>
            UNCHANGED <<state, pc, current_level, sequence, generator, leds,
                        i, j, index, sampled, held, drawn, pulses, entered,
                        matches, written, presses, mt>>]_vars
    /\ [][(state # IDLE /\ state' = SIMON_SAYS /\ state # SIMON_SAYS) =>
            (state = PLAYER_SAYS /\ current_level' = current_level + 1)]_vars

\* the START button is held down when the third demonstration is dispatched
C10_Witness ==
    /\ state = SIMON_SAYS
    /\ pc = "loop"
    /\ start
    /\ current_level = 2

\* C11: IDLE is left only by a step that finds the START pin active; that
\* step goes to SIMON_SAYS, seeds the generator from the tick (no draw made
\* yet) and sets current_level to 0; the generator is seeded by no other
\* step, and every draw is made from a seeded generator; an IDLE poll with
\* the START pin inactive changes nothing.
C11_LeavesIdleOnStart ==
    /\ [][(state = IDLE /\ state' # IDLE) =>
            /\ start
            /\ pc = "loop"
            /\ state' = SIMON_SAYS
            /\ generator'.seed \in 0 .. MaxTick
            /\ generator'.calls = 0
            /\ drawn' = <<>>
            /\ current_level' = 0]_vars
    /\ [][(generator'.seed # generator.seed
             \/ generator'.calls < generator.calls) =>
            (state = IDLE /\ state' = SIMON_SAYS /\ start)]_vars
    /\ [][generator'.calls > generator.calls =>
            /\ generator.seed # DefaultSeed
            /\ generator'.seed = generator.seed
            /\ generator.calls = Len(drawn)]_vars
    /\ [][(state = IDLE /\ ~start /\ start' = start) => UNCHANGED vars]_vars
    /\ [](state # IDLE => generator.seed # DefaultSeed)

\* a later session has just been started: the generator is freshly seeded
\* and nothing is drawn yet, the buffer still holds the earlier session
C11_Witness ==
    /\ state = SIMON_SAYS
    /\ pc = "loop"
    /\ current_level = 0
    /\ generator = [seed |-> 1, calls |-> 0]
    /\ sequence[2] = 3

\* C12: every session starts with current_level = 0 and with no position
\* of the buffer stored to yet, whatever the previous session left behind;
\* the first position shown and the first compared is sequence[0], stored
\* in this session; and every position the demonstration shows or the
\* comparison reads has been stored to in the current session.
C12_FreshSession ==
    /\ [][(state = IDLE /\ state' # IDLE) =>
            (current_level' = 0 /\ written' = {} /\ drawn' = <<>>)]_vars
    /\ [](pc \in {"demo_off", "poll", "scanned", "release", "compare"} =>
            /\ i \in written
            /\ 0 \in written
            /\ sequence[i] = drawn[i + 1]
            /\ sequence[0] = drawn[1])
    /\ [](written = {k \in 0 .. (MAX_LEVEL - 1) : k < Len(drawn)})
    /\ [][(pc = "loop" /\ state = SIMON_SAYS /\ pc' = "demo") =>
            written' = written \cup {current_level}]_vars

\* first round of a later session: the earlier session reached a higher
\* level, and its entries are still in the buffer behind sequence[0]
C12_Witness ==
    /\ pc = "compare"
    /\ current_level = 0
    /\ written = {0}
    /\ sequence[0] = 2
    /\ sequence[1] = 3
    /\ sequence[2] = 1

\* the first n outputs of the generator seeded as the running session's
Stream(n) == SubSeq(mt[generator.seed], 1, n)

\* C13 (under DetSpec, where the generator's outputs are a function of
\* the seed and of the number of draws since): the draws of a session are
\* the first outputs after its seed, so sessions seeded alike draw alike;
\* the stored entries, the demonstration's pulses and the outcome of every
\* comparison are functions of the seed, the level and the presses alone.
C13_Deterministic ==
    /\ [](generator.calls = Len(drawn))
    /\ [](state # IDLE => drawn = Stream(Len(drawn)))
    /\ [](state # IDLE =>
            \A k \in written : sequence[k] = mt[generator.seed][k + 1])
    /\ [](pc \in {"poll", "scanned", "release", "compare"} =>
            /\ pulses = Stream(current_level + 1)
            /\ entered = Stream(i))
    /\ [][(pc = "compare" /\ pc' # pc) =>
            /\ (state' = GAME_OVER) <=> (index # mt[generator.seed][i + 1])
            /\ (state' = PLAYER_SAYS) <=> (index = mt[generator.seed][i + 1])
         ]_vars
    /\ [][(pc = "after" /\ pc' # pc /\ state = PLAYER_SAYS) =>
            entered = Stream(current_level + 1)]_vars

\* a session seeded with tick 0 is in its third round, after an earlier
\* session seeded with tick 0 that went through all five levels (only the
\* stream of tick 0 can have left 1, 2 in the tail of the buffer): both drew
\* 2, 0, 3
C13_Witness ==
    /\ mt[0] = <<2, 0, 3, 1, 2>>
    /\ mt[1] = <<0, 0, 0, 0, 0>>
    /\ generator.seed = 0
    /\ pc = "poll"
    /\ drawn = <<2, 0, 3>>
    /\ sequence[3] = 1
    /\ sequence[4] = 2

\* C14 as stated: in every reachable state at most one of the four
\* outputs is active.
C14_AsStated == Cardinality(leds) <= 1

\* C14: outside the loss feedback at most one of the four outputs is
\* active (demonstration, input verification, win feedback, IDLE); the loss
\* feedback toggles all four together, so there they are all active after
\* an odd number of toggles and all inactive after an even number.
C14_OneOutputButLossBlink ==
    /\ pc # "toggle" => Cardinality(leds) <= 1
    /\ pc = "toggle" =>
          leds = IF i % 2 = 1 THEN 0 .. (LED_COUNT - 1) ELSE {}

\* the loss feedback after its third toggle: all four outputs are on
C14_Witness ==
    /\ state = GAME_OVER
    /\ pc = "toggle"
    /\ i = 3
    /\ leds = 0 .. (LED_COUNT - 1)

\* C15 (under FairDetSpec): whenever the state is GAME_OVER or WIN the
\* state eventually is IDLE; in these states the machine is at no button
\* read, the feedback loops are bounded, the state is left for IDLE only,
\* and no step there reads or changes anything but the outputs, the loop
\* counters and the state, whatever the START pin does.
C15_FeedbackTransient ==
    /\ (state \in {GAME_OVER, WIN}) ~> (state = IDLE)
    /\ [](state \in {GAME_OVER, WIN} =>
            /\ pc \in {"after", "loop", "toggle", "win_on", "win_off"}
            /\ sampled = {}
            /\ index = -1
            /\ i <= BLINK_COUNT
            /\ j <= WIN_ROUNDS)
    /\ [][(state \in {GAME_OVER, WIN} /\ state' # state) =>
            state' = IDLE]_vars
    /\ [][(state \in {GAME_OVER, WIN}) =>
            (UNCHANGED <<current_level, sequence, generator, index,
                         sampled, held, drawn, matches, written,
                         presses>>)]_vars

\* the win feedback is in its last round with the START button held down
C15_Witness ==
    /\ state = WIN
    /\ pc = "win_off"
    /\ j = WIN_ROUNDS - 1
    /\ i = LED_COUNT - 1
    /\ start

\* C16: Next() is called only by the SIMON_SAYS case at its entry, once,
\* and the value is stored at sequence[current_level]; the playback that
\* follows has current_level + 1 >= 1 pulses and ends with state
\* PLAYER_SAYS, so the case is never dispatched twice in a row; the number
\* of calls since the seed is current_level before the draw of a round and
\* current_level + 1 after it.
C16_OneDrawPerRound ==
    /\ [](state = SIMON_SAYS /\ pc = "loop" =>
            generator.calls = current_level)
    /\ []((state = PLAYER_SAYS \/ (state = SIMON_SAYS /\ pc # "loop")) =>
            generator.calls = current_level + 1)
    /\ [][(drawn' # drawn /\ drawn' # <<>>) =>
            /\ state = SIMON_SAYS
            /\ pc = "loop"
            /\ pc' = "demo"
            /\ generator'.calls = generator.calls + 1
            /\ Len(drawn') = Len(drawn) + 1
            /\ sequence'[current_level] = drawn'[Len(drawn')]
            /\ current_level' = current_level]_vars
    /\ [][(pc = "demo" /\ pc' = "loop") =>
            /\ state' = PLAYER_SAYS
            /\ Len(pulses) = current_level + 1]_vars

\* the fifth demonstration is over: five draws in five rounds
C16_Witness ==
    /\ state = PLAYER_SAYS
    /\ pc = "loop"
    /\ current_level = MAX_LEVEL - 1
    /\ generator.calls = MAX_LEVEL
    /\ Len(pulses) = MAX_LEVEL

\* C17: sequence is written only by the draw at the entry of SIMON_SAYS,
\* and only at position current_level: no step of PLAYER_SAYS, GAME_OVER,
\* WIN or IDLE changes it, and the value drawn in round k is still at
\* sequence[k - 1] in every later round and until the next session starts.
C17_AppendOnly ==
    /\ [][sequence' # sequence =>
            /\ state = SIMON_SAYS
            /\ pc = "loop"
            /\ \A k \in DOMAIN sequence \ {current_level} :
                  sequence'[k] = sequence[k]]_vars
    /\ [](\A k \in 1 .. Len(drawn) : sequence[k - 1] = drawn[k])
    /\ [](written = 0 .. (Len(drawn) - 1))

\* the last round is verified against five stored values, the first of
\* which differs from all the later ones
C17_Witness ==
    /\ state = PLAYER_SAYS
    /\ pc = "poll"
    /\ current_level = MAX_LEVEL - 1
    /\ drawn = <<3, 2, 1, 0, 2>>
    /\ sequence[0] = 3

\* C18: current_level changes only in two steps: the IDLE case that finds
\* START active sets it to 0, and a PLAYER_SAYS round matched in full below
\* the last level adds one; the draw and playback, a lost round, the last
\* round won, and the returns from GAME_OVER and WIN to IDLE leave it as
\* it is.
C18_LevelChanges ==
    /\ [][(state = IDLE /\ state' = SIMON_SAYS) =>
            current_level' = 0]_vars
    /\ [][(state # IDLE /\ current_level' # current_level) =>
            /\ state = PLAYER_SAYS
            /\ pc = "after"
            /\ state' = SIMON_SAYS
            /\ entered = Prefix(current_level + 1)
            /\ current_level < MAX_LEVEL - 1
            /\ current_level' = current_level + 1]_vars
    /\ [][(state = IDLE /\ state' = IDLE) =>
            current_level' = current_level]_vars

\* back in IDLE after a session lost in its fourth round: the level of
\* that round is still there
C18_Witness ==
    /\ state = IDLE
    /\ current_level = 3
    /\ matches = 1 + 2 + 3
    /\ presses > matches

\* C19: in IDLE and at every poll of the buttons in PLAYER_SAYS all four
\* outputs are inactive; a demonstration pulse and a press confirmation
\* leave only their own output active until they reset it, the win
\* feedback has one output active between its on and off step, and the
\* loss feedback is back to all inactive after its four toggles.
C19_OutputsOffWhenWaiting ==
    /\ (state = IDLE \/ pc \in {"poll", "scanned"}) => leds = {}
    /\ pc = "demo" => leds = {}
    /\ pc = "demo_off" => leds = {Shown(i)}
    /\ pc = "release" => leds = {index}
    /\ pc = "win_on" => leds = {}
    /\ pc = "win_off" => leds = {i}
    /\ (pc = "toggle" /\ i \in {0, BLINK_COUNT}) => leds = {}

\* IDLE again after a lost session: the four toggles are done
C19_Witness ==
    /\ state = IDLE
    /\ presses = matches + 1
    /\ current_level = 2
    /\ leds = {}

\* C20 (under PlayerSpec: the player presses some button when polled and
\* releases every button pressed): a session in SIMON_SAYS or PLAYER_SAYS
\* eventually is in GAME_OVER or WIN, and then in IDLE; a session takes at
\* most 1 + 2 + ... + MAX_LEVEL presses.  Nothing in the code counts time
\* while it waits: a poll that finds no button active returns to the same
\* poll with nothing changed, and a read of the release loop that finds
\* the button still active changes nothing, so without the player the
\* machine stays in PLAYER_SAYS.
C20_SessionTerminates ==
    /\ (state \in {SIMON_SAYS, PLAYER_SAYS}) ~> (state \in {GAME_OVER, WIN})
    /\ (state \in {GAME_OVER, WIN}) ~> (state = IDLE)
    /\ [](presses <= AllPresses)
    /\ []((state = WIN) => (presses = AllPresses))
    /\ [][(pc = "poll" /\ pc' # pc /\ index' < 0) =>
            /\ pc' = "scanned"
            /\ (UNCHANGED <<state, current_level, sequence, generator,
                            leds, i, j, held, start, presses>>)]_vars
    /\ [][(pc = "scanned" /\ index < 0 /\ pc' # pc) =>
            /\ pc' = "poll"
            /\ (UNCHANGED <<state, current_level, sequence, generator,
                            leds, i, j, index, held, start, presses>>)]_vars
    /\ [][(pc = "release" /\ pc' = "release") =>
            (UNCHANGED <<state, current_level, sequence, generator, leds,
                         i, j, index, sampled, presses>>)]_vars

\* a session won with all fifteen presses is back in IDLE
C20_Witness ==
    /\ state = IDLE
    /\ presses = AllPresses
    /\ matches = AllPresses

\* PLAYER_SAYS is always left: true of PlayerSpec, and false of
\* FairDetSpec, where a player who never presses keeps the machine polling
C20_PlayerSaysEnds ==
    (state = PLAYER_SAYS) ~> (state # PLAYER_SAYS)

====
